---- MODULE Spec2Model ----
(***************************************************************************)
(* NexusCommerce checkout / order-fulfilment core.                         *)
(*                                                                         *)
(* The database is the shared state.  Every HTTP request runs in a worker  *)
(* slot and advances one database statement (or one atomic transaction     *)
(* commit) at a time, so that interleavings of concurrent requests are     *)
(* explored.  Writes made inside transaction.atomic() stay in the slot     *)
(* until the commit step; statements outside a transaction autocommit.     *)
(*                                                                         *)
(* Money: database columns are DecimalField(decimal_places=2) and are      *)
(* held in cents.  Python-side intermediate Decimals carry four decimal    *)
(* places and are held in units of 1/10000 ("E4"); storing one in a        *)
(* column rounds it to cents.                                              *)
(*                                                                         *)
(* Specifications:                                                         *)
(*   SpecCheckout  carts and concurrent checkouts of two customers;        *)
(*   SpecOrders    one order and its PATCH / PUT status updates, the       *)
(*                 requests arriving one after the other;                  *)
(*   SpecRefunds   one order, its payment and concurrent refund requests;  *)
(*   SpecCheckoutRequest  checkout requests with every kind of body while  *)
(*                 the catalogue is edited;                                *)
(*   SpecTotals    the amounts of one customer's orders;                   *)
(*   SpecOrderDelete  one order, its PATCH updates and its DELETE;         *)
(*   SpecOrderNumber  checkouts whose order number draw may collide;       *)
(*   SpecSnapshot  one checkout while the variant bought is edited;        *)
(*   SpecLifecycle  one order with its updates, payments and refunds, the  *)
(*                 requests arriving one after the other;                  *)
(*   SpecStock     SpecLifecycle with the cart operations and the sweep    *)
(*                 task for pending orders;                                *)
(*   SpecPayments  one order and concurrent payment requests for it.       *)
(***************************************************************************)
EXTENDS Integers, Sequences, FiniteSets, TLC

\* ------------------------------------------------------------------ bounds
NumSlots == 2
MaxQty == 2
MaxOrders == 2
MaxHistory == 5
MaxPayments == 1
MaxRefunds == 2

\* ------------------------------------------------------- catalogue fixture
Slots == 1..NumSlots
\* the two customers of the fixture
Users == {1, 2}
Variants == {1, 2}
ShippingMethodIds == {1, 2}

\* the catalogue: the variants above and variant 3, which has no weight
Catalogue == Variants \cup {3}

InitStock(v) == IF v = 1 THEN 2 ELSE 1

\* ProductVariant.price, in cents
Price(v) == IF v = 1 THEN 1000 ELSE 1004

\* ProductVariant.weight (null=True), in hundredths of a kg
HasWeight(v) == v \in {1, 2}

Weight(v) == IF v = 1 THEN 100 ELSE 2

\* shipping methods offered to the checkout requests that are explored
CheckoutMethods == {2}

\* ShippingMethod.base_cost / cost_per_kg, in cents
BaseCost(m) == IF m = 1 THEN 599 ELSE 400
CostPerKg(m) == IF m = 1 THEN 150 ELSE 20

\* PaymentMethod rows of the fixture: method 1 is active, method 2 is not
PaymentMethodIds == {1, 2}

is_active(method) == method = 1

\* ------------------------------------------------------------ enumerations
STATUS_CHOICES ==
    {"pending", "confirmed", "processing", "shipped", "delivered",
     "cancelled", "refunded"}

PAYMENT_STATUS_CHOICES ==
    {"pending", "paid", "failed", "refunded", "partially_refunded"}

Absent == "absent"

\* ---------------------------------------------------------------- helpers
RECURSIVE SumSeq(_)
SumSeq(s) == IF s = <<>> THEN 0 ELSE Head(s) + SumSeq(Tail(s))

\* Storing a four-decimal Decimal (E4) in a DecimalField(decimal_places=2)
\* column (cents): django.db.backends.utils.format_number quantizes with the
\* default decimal context, ROUND_HALF_EVEN.  (PostgreSQL rounds the ties
\* itself, upwards; the catalogue fixture produces no ties.)
Quantize(x) ==
    LET q == x \div 100
        r == x % 100
    IN IF r > 50 THEN q + 1
       ELSE IF r < 50 THEN q
       ELSE IF q % 2 = 1 THEN q + 1 ELSE q

\* ---------------------------------------------------------------- state
VARIABLES
    stock,          \* ProductVariant.stock_quantity, per variant
    carts,          \* per user: the cart's CartItems in created_at order
    shipMethods,    \* per ShippingMethod id: "active", "inactive" or "deleted"
    variantActive,  \* ProductVariant.is_active, per variant
    catalog,        \* per variant: price, name, sku and its product's name
    orders,         \* Order rows; the index is the primary key
    orderItems,     \* OrderItem rows
    orderShipping,  \* OrderShipping rows
    history,        \* per order: its OrderStatusHistory rows, oldest first
    payments,       \* Payment rows
    refunds,        \* Refund rows
    req,            \* per worker slot: the request in progress
    resp            \* the response sent by the last step: slot and outcome

vars == <<stock, carts, shipMethods, variantActive, catalog, orders, orderItems,
          orderShipping,
          history, payments, refunds, req, resp>>

catalogVars == <<stock, shipMethods, variantActive, catalog>>
orderVars == <<orders, orderItems, orderShipping, history>>
paymentVars == <<payments, refunds>>

Idle == [op |-> "idle"]

\* the last step sent no response
NoResponse == [slot |-> 0, outcome |-> "none"]

Init ==
    /\ stock = [v \in Catalogue |-> InitStock(v)]
    /\ carts = [u \in Users |-> <<>>]
    /\ shipMethods = [m \in ShippingMethodIds |-> "active"]
    /\ variantActive = [v \in Catalogue |-> TRUE]
    /\ catalog = [v \in Catalogue |->
                     [price |-> Price(v), name |-> "original",
                      sku |-> "original", product_name |-> "original"]]
    /\ orders = <<>>
    /\ orderItems = <<>>
    /\ orderShipping = <<>>
    /\ history = <<>>
    /\ payments = <<>>
    /\ refunds = <<>>
    /\ req = [s \in Slots |-> Idle]
    /\ resp = NoResponse

\* primary keys are not reused: the place of a deleted Order row in the
\* sequence holds NoRow
NoRow == [deleted |-> TRUE]

ExistingOrders == {o \in DOMAIN orders : orders[o] # NoRow}

\* a new request is served by a free worker; workers are interchangeable
FreeSlot(s) ==
    /\ req[s].op = "idle"
    /\ \A t \in Slots : t < s => req[t].op # "idle"

Finish(s, outcome) ==
    /\ req' = [req EXCEPT ![s] = Idle]
    /\ resp' = [slot |-> s, outcome |-> outcome]

\* ------------------------------------------------------------------ carts
CartVariants(cart) == {cart[i].variant : i \in DOMAIN cart}

CartIndexOf(cart, v) == CHOOSE i \in DOMAIN cart : cart[i].variant = v

\* CartViewSet.add_item with AddToCartSerializer; a request that is
\* rejected changes nothing
AddItem(u, v, q) ==
    /\ variantActive[v]
    /\ stock[v] >= q
    /\ IF v \notin CartVariants(carts[u])
       THEN carts' = [carts EXCEPT ![u] =
                         Append(@, [variant |-> v, quantity |-> q,
                                    unit_price |-> catalog[v].price])]
       ELSE LET i == CartIndexOf(carts[u], v)
                new_quantity == carts[u][i].quantity + q
            IN /\ new_quantity <= stock[v]
               /\ carts' = [carts EXCEPT
                              ![u][i].quantity = new_quantity,
                              ![u][i].unit_price = catalog[v].price]
    /\ resp' = NoResponse
    /\ UNCHANGED <<catalogVars, orderVars, paymentVars, req>>

\* sequence seq without its element i
RemoveAt(seq, i) ==
    [j \in 1..(Len(seq) - 1) |-> IF j < i THEN seq[j] ELSE seq[j + 1]]

\* CartViewSet.remove_item: cart_item.delete(), answered with 204 "Item
\* removed from cart"
RemoveItem(u, i) ==
    /\ i \in DOMAIN carts[u]
    /\ carts' = [carts EXCEPT ![u] = RemoveAt(@, i)]
    /\ resp' = [slot |-> 0, outcome |-> "item_removed"]
    /\ UNCHANGED <<catalogVars, orderVars, paymentVars, req>>

\* CartViewSet.clear: cart.items.all().delete(), answered with 200 "Cart
\* cleared successfully"
ClearCart(u) ==
    /\ carts[u] # <<>>
    /\ carts' = [carts EXCEPT ![u] = <<>>]
    /\ resp' = [slot |-> 0, outcome |-> "cart_cleared"]
    /\ UNCHANGED <<catalogVars, orderVars, paymentVars, req>>

\* CartViewSet.update_item with UpdateCartItemSerializer: quantity 0 deletes
\* the line, a quantity above the stock is rejected, any other is stored by
\* CartItem.save, which also refreshes unit_price
UpdateItem(u, i, q) ==
    /\ i \in DOMAIN carts[u]
    /\ stock[carts[u][i].variant] >= q
    /\ carts' = [carts EXCEPT ![u] =
                     IF q = 0 THEN RemoveAt(@, i)
                     ELSE [@ EXCEPT ![i].quantity = q,
                                    ![i].unit_price =
                                        catalog[carts[u][i].variant].price]]
    /\ resp' = NoResponse
    /\ UNCHANGED <<catalogVars, orderVars, paymentVars, req>>

\* CartViewSet.validate: a line whose unit_price is not the variant's price
\* is saved with the current price; nothing else is written
ValidateCart(u) ==
    /\ carts' = [carts EXCEPT ![u] =
                     [i \in DOMAIN carts[u] |->
                         [carts[u][i] EXCEPT
                              !.unit_price =
                                  catalog[carts[u][i].variant].price]]]
    /\ resp' = NoResponse
    /\ UNCHANGED <<catalogVars, orderVars, paymentVars, req>>

\* --------------------------------------------------------------- checkout
\* row locks (select_for_update) held by the open transaction of slot s
LockedBy(s) ==
    IF req[s].op = "checkout" /\ req[s].pc = "lines"
    THEN {req[s].items[i].variant : i \in 1..(req[s].idx - 1)}
    ELSE {}

LockedByOther(s, v) == \E t \in Slots \ {s} : v \in LockedBy(t)

InFlightCheckouts == Cardinality({s \in Slots : req[s].op = "checkout"})

\* CartItem.is_available
is_available(item) == variantActive[item.variant] /\ stock[item.variant] > 0

\* mutation: the cart lines are only tested for availability
CartItemsValid_NoQuantityTest(cart) ==
    \A i \in DOMAIN cart : is_available(cart[i])

\* CheckoutSerializer.validate: the loop over the cart items
CartItemsValid(cart) ==
    \A i \in DOMAIN cart :
        /\ is_available(cart[i])
        /\ cart[i].quantity <= stock[cart[i].variant]

\* required_fields of validate_shipping_address / validate_billing_address
required_fields ==
    {"first_name", "last_name", "address_line_1", "city", "state_province",
     "postal_code", "country"}

\* An address of a request body is held as the set of the required fields
\* it carries with a non-empty value: "if not value.get(field): raise".
validate_address(value) == \A field \in required_fields : field \in value

\* CheckoutSerializer.validate_shipping_method_id
validate_shipping_method_id(value) ==
    value \in DOMAIN shipMethods /\ shipMethods[value] = "active"

\* CheckoutSerializer.validate_payment_method_id
validate_payment_method_id(value) ==
    value \in PaymentMethodIds /\ is_active(value)

\* serializer.is_valid of CheckoutSerializer: the field validators, then
\* validate()
CheckoutIsValid(cart, data) ==
    /\ validate_address(data.shipping_address)
    /\ validate_address(data.billing_address)
    /\ validate_shipping_method_id(data.shipping_method_id)
    /\ validate_payment_method_id(data.payment_method_id)
    /\ cart # <<>>
    /\ CartItemsValid(cart)

\* the keys of the error response: the fields whose validator raised, or
\* non_field_errors when validate() raised
CheckoutErrors(cart, data) ==
    LET fields ==
            {f \in {"shipping_address"} :
                 ~validate_address(data.shipping_address)}
            \cup {f \in {"billing_address"} :
                 ~validate_address(data.billing_address)}
            \cup {f \in {"shipping_method_id"} :
                 ~validate_shipping_method_id(data.shipping_method_id)}
            \cup {f \in {"payment_method_id"} :
                 ~validate_payment_method_id(data.payment_method_id)}
    IN IF fields # {} THEN fields ELSE {"non_field_errors"}

\* a request body that passes the field validators, for shipping method m
CheckoutData(m) ==
    [shipping_method_id |-> m, payment_method_id |-> 1,
     shipping_address |-> required_fields,
     billing_address |-> required_fields]

\* CheckoutView.post up to the call of process_checkout
CheckoutPost(s, u, data) ==
    /\ FreeSlot(s)
    /\ Len(orders) + InFlightCheckouts < MaxOrders
    /\ IF carts[u] = <<>>
       THEN Finish(s, "cart_empty")
       ELSE IF ~CheckoutIsValid(carts[u], data)
       THEN /\ req' = req
            /\ resp' = [slot |-> s, outcome |-> "validation_error",
                        errors |-> CheckoutErrors(carts[u], data)]
       ELSE /\ req' = [req EXCEPT ![s] =
                          [op |-> "checkout", pc |-> "create", user |-> u,
                           method |-> data.shipping_method_id,
                           data |-> data, items |-> <<>>, idx |-> 1,
                           lines |-> <<>>]]
            /\ resp' = NoResponse
    /\ UNCHANGED <<catalogVars, carts, orderVars, paymentVars>>

\* process_checkout: Order.objects.create(...) without subtotal and
\* total_amount (both NOT NULL, no default), then the cart items query
CheckoutCreateOrder(s) ==
    /\ req[s].op = "checkout"
    /\ req[s].pc = "create"
    /\ \/ Finish(s, "integrity_error")
       \/ /\ req' = [req EXCEPT ![s].pc = "lines",
                                ![s].items = carts[req[s].user]]
          /\ resp' = NoResponse
    /\ UNCHANGED <<catalogVars, carts, orderVars, paymentVars>>

\* Order.save() of the create step: generate_order_number draws eight hex
\* digits of a uuid4 once, with no look at the existing rows.  Order numbers
\* are held by their identity only: a draw that equals no stored number is
\* the number the committed row carries (written as its primary key), and
\* this step is the draw that equals the number of the stored order o: the
\* unique index refuses the INSERT and the IntegrityError ends the request.
CheckoutNumberCollision(s, o) ==
    /\ req[s].op = "checkout"
    /\ req[s].pc = "create"
    /\ o \in ExistingOrders
    /\ req' = [req EXCEPT ![s] = Idle]
    /\ resp' = [slot |-> s, outcome |-> "integrity_error",
                order_number |-> orders[o].order_number]
    /\ UNCHANGED <<catalogVars, carts, orderVars, paymentVars>>

\* mutation: the re-check only asks whether the variant is in stock at all
InsufficientStock_InStockOnly(available, requested) == available <= 0

\* "if variant.stock_quantity < cart_item.quantity: raise ValueError(...)"
InsufficientStock(available, requested) == available < requested

\* mutation: variant.save() takes effect at once, as without the
\* transaction.atomic() block
UncommittedStock_Autocommit(v, q) == [stock EXCEPT ![v] = @ - q]

\* the stock column as the database shows it after variant.save() inside the
\* open transaction.atomic() block: the write is not visible, and not kept
\* on a rollback, until the transaction commits
UncommittedStock(v, q) == stock

\* mutation: the line total is the unit price, whatever the quantity
total_price_Unit(unit_price, quantity) == unit_price

\* OrderItem.save: self.total_price = self.unit_price * self.quantity
total_price(unit_price, quantity) == unit_price * quantity

\* process_checkout: one iteration of the loop over the cart items; the row
\* lock makes the request wait while another open transaction holds it, and
\* the stock decrement stays in the transaction until the commit
CheckoutLine(s) ==
    /\ req[s].op = "checkout"
    /\ req[s].pc = "lines"
    /\ req[s].idx <= Len(req[s].items)
    /\ LET cart_item == req[s].items[req[s].idx]
           v == cart_item.variant
       IN /\ ~LockedByOther(s, v)
          /\ IF InsufficientStock(stock[v], cart_item.quantity)
             THEN Finish(s, "insufficient_stock") /\ UNCHANGED stock
             ELSE /\ req' = [req EXCEPT
                       ![s].idx = @ + 1,
                       ![s].lines = Append(@,
                           [variant |-> v,
                            product_name |-> catalog[v].product_name,
                            variant_name |-> catalog[v].name,
                            sku |-> catalog[v].sku,
                            unit_price |-> catalog[v].price,
                            quantity |-> cart_item.quantity,
                            total_price |->
                                total_price(catalog[v].price,
                                            cart_item.quantity)])]
                  /\ stock' = UncommittedStock(v, cart_item.quantity)
                  /\ resp' = NoResponse
    /\ UNCHANGED <<shipMethods, variantActive, catalog, carts, orderVars,
                   paymentVars>>

\* "if item.product_variant.weight:" is false for None and for zero
WeightOf(v) == IF HasWeight(v) /\ Weight(v) # 0 THEN Weight(v) ELSE 0

\* mutation: the weight of a line is counted once, whatever its quantity
calculate_shipping_cost_PerLine(cart, m) ==
    LET total_weight ==
            SumSeq([i \in DOMAIN cart |-> WeightOf(cart[i].variant)])
    IN BaseCost(m) * 100 + total_weight * CostPerKg(m)

\* CheckoutView.calculate_shipping_cost, result in E4
calculate_shipping_cost(cart, m) ==
    LET total_weight ==
            SumSeq([i \in DOMAIN cart |->
                        WeightOf(cart[i].variant) * cart[i].quantity])
    IN BaseCost(m) * 100 + total_weight * CostPerKg(m)

\* tax_amount = subtotal * Decimal("0.10"), result in E4
TaxAmount(subtotal) == subtotal * 10

\* mutation: one unit is taken per order line, whatever its quantity
LineStock_OnePerLine(lines, v) ==
    SumSeq([i \in DOMAIN lines |-> IF lines[i].variant = v THEN 1 ELSE 0])

\* "variant.stock_quantity -= cart_item.quantity" over the lines of the
\* transaction: the units it takes from variant v
LineStock(lines, v) ==
    SumSeq([i \in DOMAIN lines |->
                IF lines[i].variant = v THEN lines[i].quantity ELSE 0])

\* process_checkout after the loop: totals, order.save(), OrderShipping,
\* initial history row, cart clearing, and the commit of the transaction
CheckoutCommit(s) ==
    /\ req[s].op = "checkout"
    /\ req[s].pc = "lines"
    /\ req[s].idx > Len(req[s].items)
    /\ LET u == req[s].user
           m == req[s].method
           lines == req[s].lines
           id == Len(orders) + 1
           subtotal == SumSeq([i \in DOMAIN lines |-> lines[i].total_price])
           shipping_cost == calculate_shipping_cost(carts[u], m)
           tax_amount == TaxAmount(subtotal)
           total_amount == subtotal * 100 + shipping_cost + tax_amount
       IN IF shipMethods[m] = "deleted"
          THEN /\ Finish(s, "does_not_exist")
               /\ UNCHANGED <<stock, carts, orderVars>>
          ELSE /\ orders' = Append(orders,
                      [order_number |-> id,
                       customer |-> u,
                       status |-> "pending",
                       payment_status |-> "pending",
                       subtotal |-> subtotal,
                       tax_amount |-> Quantize(tax_amount),
                       shipping_amount |-> Quantize(shipping_cost),
                       discount_amount |-> 0,
                       total_amount |-> Quantize(total_amount),
                       shipping_address |-> req[s].data.shipping_address,
                       billing_address |-> req[s].data.billing_address,
                       internal_notes |-> ""])
               /\ orderItems' = orderItems \o
                      [i \in DOMAIN lines |->
                          [order |-> id,
                           variant |-> lines[i].variant,
                           product_name |-> lines[i].product_name,
                           variant_name |-> lines[i].variant_name,
                           sku |-> lines[i].sku,
                           unit_price |-> lines[i].unit_price,
                           quantity |-> lines[i].quantity,
                           total_price |-> lines[i].total_price]]
               /\ orderShipping' = Append(orderShipping,
                      [order |-> id, method |-> m,
                       shipping_cost |-> Quantize(shipping_cost)])
               /\ history' = Append(history,
                      <<[status |-> "pending",
                         payment_status |-> "pending",
                         notes |-> "Order created", changed_by |-> u]>>)
               /\ stock' = [v \in Catalogue |->
                                 stock[v] - LineStock(lines, v)]
               /\ carts' = [carts EXCEPT ![u] = <<>>]
               /\ Finish(s, "created")
    /\ UNCHANGED <<shipMethods, variantActive, catalog, paymentVars>>

\* slot s waits for a row lock held by t while t waits for one held by s
WaitsFor(s, t) ==
    /\ req[s].op = "checkout"
    /\ req[s].pc = "lines"
    /\ req[s].idx <= Len(req[s].items)
    /\ req[s].items[req[s].idx].variant \in LockedBy(t)

\* the database's deadlock detector aborts one of the two transactions
DeadlockAbort(s) ==
    /\ \E t \in Slots \ {s} : WaitsFor(s, t) /\ WaitsFor(t, s)
    /\ Finish(s, "deadlock")
    /\ UNCHANGED <<catalogVars, carts, orderVars, paymentVars>>

\* ShippingMethodAdmin: deleting a shipping method in the admin site;
\* OrderShipping.shipping_method is on_delete=SET_NULL
ShippingMethodDelete(m) ==
    /\ shipMethods[m] # "deleted"
    /\ shipMethods' = [shipMethods EXCEPT ![m] = "deleted"]
    /\ orderShipping' = [i \in DOMAIN orderShipping |->
                            IF orderShipping[i].method = m
                            THEN [orderShipping[i] EXCEPT !.method = 0]
                            ELSE orderShipping[i]]
    /\ resp' = NoResponse
    /\ UNCHANGED <<stock, variantActive, catalog, carts, orders, orderItems,
                   history,
                   paymentVars, req>>

\* ShippingMethodAdmin: clearing is_active of a shipping method
ShippingMethodDeactivate(m) ==
    /\ shipMethods[m] = "active"
    /\ shipMethods' = [shipMethods EXCEPT ![m] = "inactive"]
    /\ resp' = NoResponse
    /\ UNCHANGED <<stock, variantActive, catalog, carts, orderVars,
                   paymentVars, req>>

\* a variant row is locked (select_for_update) by an open transaction
RowLocked(v) == \E s \in Slots : v \in LockedBy(s)

\* ProductVariantAdmin: clearing is_active of a variant; the UPDATE waits
\* for a row lock on the variant
VariantDeactivate(v) ==
    /\ ~RowLocked(v)
    /\ variantActive[v]
    /\ variantActive' = [variantActive EXCEPT ![v] = FALSE]
    /\ resp' = NoResponse
    /\ UNCHANGED <<stock, shipMethods, catalog, carts, orderVars, paymentVars,
                   req>>

\* the price a catalogue edit gives a variant, in cents
EditedPrice(v) == Price(v) + 250

\* the values a catalogue edit can give the field of a variant
EditValues(v, field) ==
    IF field = "price" THEN {Price(v), EditedPrice(v)}
    ELSE {"original", "edited"}

\* ProductVariantAdmin / ProductAdmin: saving a changed price, name or sku
\* of a variant, or a changed name of its product; the UPDATE waits for a
\* row lock on the variant
VariantEdit(v, field, value) ==
    /\ ~RowLocked(v)
    /\ catalog[v][field] # value
    /\ catalog' = [catalog EXCEPT ![v][field] = value]
    /\ resp' = NoResponse
    /\ UNCHANGED <<stock, shipMethods, variantActive, carts, orderVars,
                   paymentVars, req>>

\* ProductVariantAdmin: saving a changed stock_quantity of a variant
StockEdit(v, q) ==
    /\ ~RowLocked(v)
    /\ stock[v] # q
    /\ stock' = [stock EXCEPT ![v] = q]
    /\ resp' = NoResponse
    /\ UNCHANGED <<shipMethods, variantActive, catalog, carts, orderVars,
                   paymentVars, req>>

\* ------------------------------------------------------ the sweep task
\* process_pending_orders: the orders its query selects (status and
\* payment_status "pending"; the age test is the choice of the step)
pending_orders ==
    {o \in ExistingOrders : /\ orders[o].status = "pending"
                            /\ orders[o].payment_status = "pending"}

\* process_order_fulfillment, the task the sweep enqueues for a selected
\* order that is paid: the Order row after it.  The loop over the items
\* stops at its first item with an AttributeError (OrderItem has the integer
\* column product_variant_id and no product_variant), which the task
\* catches before anything is saved; an order without items is confirmed.
process_order_fulfillment(o) ==
    IF \E i \in DOMAIN orderItems : orderItems[i].order = o
    THEN orders[o]
    ELSE [orders[o] EXCEPT !.status = "confirmed"]

\* mutation: the sweep returns the units of an order it cancels
process_pending_orders_Restock(old) ==
    /\ old # {}
    /\ old \subseteq pending_orders
    /\ orders' = [o \in DOMAIN orders |->
                     IF o \in old
                     THEN [orders[o] EXCEPT !.status = "cancelled"]
                     ELSE orders[o]]
    /\ stock' = [v \in Catalogue |->
                    stock[v] + SumSeq([i \in DOMAIN orderItems |->
                        IF orderItems[i].order \in old
                               /\ orderItems[i].variant = v
                        THEN orderItems[i].quantity ELSE 0])]
    /\ resp' = NoResponse
    /\ UNCHANGED <<shipMethods, variantActive, catalog, carts, orderItems,
                   orderShipping, history, paymentVars, req>>

\* process_pending_orders, run by the beat schedule: of the selected orders,
\* one that is paid is handed to process_order_fulfillment, and one of the
\* set old, the orders created more than 24 hours ago, is cancelled with
\* order.save(); no OrderStatusHistory row is written
process_pending_orders(old) ==
    /\ old # {}
    /\ old \subseteq pending_orders
    /\ orders' = [o \in DOMAIN orders |->
                     IF o \in pending_orders
                            /\ orders[o].payment_status = "paid"
                     THEN process_order_fulfillment(o)
                     ELSE IF o \in old
                     THEN [orders[o] EXCEPT !.status = "cancelled"]
                     ELSE orders[o]]
    /\ resp' = NoResponse
    /\ UNCHANGED <<catalogVars, carts, orderItems, orderShipping, history,
                   paymentVars, req>>

\* ------------------------------------------------------- error responses
\* the exception a step raised, by the outcome it records
Raised(outcome) ==
    CASE outcome = "validation_error" -> "ValidationError"
      [] outcome = "invalid_status_transition" -> "ValidationError"
      [] outcome = "insufficient_stock" -> "ValueError"
      [] outcome = "integrity_error" -> "IntegrityError"
      [] outcome = "attribute_error" -> "AttributeError"
      [] outcome = "does_not_exist" -> "DoesNotExist"
      [] outcome = "deadlock" -> "OperationalError"
      [] OTHER -> "none"

\* rest_framework.views.exception_handler answers for APIException (of
\* which serializers.ValidationError is one), Http404 and PermissionDenied,
\* and returns None for every other exception
exception_handler(exc) ==
    IF exc \in {"ValidationError", "Http404", "PermissionDenied"}
    THEN [status |-> IF exc = "ValidationError" THEN 400
                     ELSE IF exc = "Http404" THEN 404 ELSE 403,
          code |-> IF exc = "ValidationError" THEN "invalid"
                   ELSE IF exc = "Http404" THEN "not_found"
                   ELSE "permission_denied"]
    ELSE [status |-> 0, code |-> "None"]

\* custom_exception_handler: the default handler's response with the body
\* rewritten to {status, error: {code, message, details}}; when the default
\* handler returns None so does this one, the exception is raised again and
\* Django answers 500
custom_exception_handler(exc) ==
    LET response == exception_handler(exc)
    IN IF response.code # "None"
       THEN response
       ELSE [status |-> 500, code |-> "server_error"]

\* ------------------------------------------------------ order status update
\* requests of this section are sent by an admin user: IsVendorOwnerOrAdmin
\* grants object access to request.user.is_admin, and an Order has no vendor
Admin == 0

\* request bodies { status?, payment_status?, internal_notes? } of the
\* explored requests: a status alone, or a payment_status with a note
UpdateData ==
    {[status |-> t, payment_status |-> Absent, internal_notes |-> Absent] :
        t \in STATUS_CHOICES}
    \cup {[status |-> Absent, payment_status |-> "paid",
           internal_notes |-> "checked"]}

\* mutation: a pending order may be marked shipped directly
valid_transitions_SkipAhead(current_status) ==
    CASE current_status = "pending" -> {"confirmed", "cancelled", "shipped"}
      [] current_status = "confirmed" -> {"processing", "cancelled"}
      [] current_status = "processing" -> {"shipped", "cancelled"}
      [] current_status = "shipped" -> {"delivered"}
      [] OTHER -> {}

\* OrderUpdateSerializer.validate_status: the valid_transitions dictionary
valid_transitions(current_status) ==
    CASE current_status = "pending" -> {"confirmed", "cancelled"}
      [] current_status = "confirmed" -> {"processing", "cancelled"}
      [] current_status = "processing" -> {"shipped", "cancelled"}
      [] current_status = "shipped" -> {"delivered"}
      [] current_status = "delivered" -> {}
      [] current_status = "cancelled" -> {}
      [] current_status = "refunded" -> {}

\* serializer.is_valid: validate_status runs only when the body has a status
IsValid(instance, data) ==
    data.status # Absent => data.status \in valid_transitions(instance.status)

\* mutation: a cancellation also clears the amount due
Updated_ClearsTotal(instance, data) ==
    [instance EXCEPT
        !.status = IF data.status # Absent THEN data.status ELSE @,
        !.payment_status =
            IF data.payment_status # Absent THEN data.payment_status ELSE @,
        !.internal_notes =
            IF data.internal_notes # Absent THEN data.internal_notes ELSE @,
        !.total_amount = IF data.status = "cancelled" THEN 0 ELSE @]

\* ModelSerializer.update: the fields of the body are set on the instance
Updated(instance, data) ==
    [instance EXCEPT
        !.status = IF data.status # Absent THEN data.status ELSE @,
        !.payment_status =
            IF data.payment_status # Absent THEN data.payment_status ELSE @,
        !.internal_notes =
            IF data.internal_notes # Absent THEN data.internal_notes ELSE @]

InFlightPatches(o) ==
    Cardinality({s \in Slots :
                    req[s].op = "partial_update" /\ req[s].order = o})

\* get_object and serializer.is_valid of a PATCH (handler "partial_update")
\* or PUT (handler "update", inherited from ModelViewSet) request; the
\* ValidationError names the current and the requested status
UpdateStart(s, handler, o, data) ==
    /\ FreeSlot(s)
    /\ o \in ExistingOrders
    /\ handler = "partial_update"
           => Len(history[o]) + InFlightPatches(o) < MaxHistory
    /\ LET instance == orders[o]
       IN IF IsValid(instance, data)
          THEN /\ req' = [req EXCEPT ![s] =
                             [op |-> handler, pc |-> "save", order |-> o,
                              data |-> data, instance |-> instance]]
               /\ resp' = NoResponse
          ELSE /\ req' = req
               /\ resp' = [slot |-> s,
                           outcome |-> "invalid_status_transition",
                           order |-> o,
                           from |-> instance.status,
                           to |-> data.status]
    /\ UNCHANGED <<catalogVars, carts, orderVars, paymentVars>>

\* "old_status = instance.status; old_payment_status =
\* instance.payment_status", taken before serializer.save()
OldValues(instance, order) == instance

\* serializer.save(): Model.save() writes every column of the instance that
\* get_object read.  partial_update then compares the old and the new
\* status and payment_status; update returns the response.
UpdateSave(s) ==
    /\ req[s].op \in {"partial_update", "update"}
    /\ req[s].pc = "save"
    /\ LET o == req[s].order
           order == Updated(req[s].instance, req[s].data)
           old == OldValues(req[s].instance, order)
       IN /\ orders' = [orders EXCEPT ![o] = order]
          /\ IF /\ req[s].op = "partial_update"
                /\ \/ old.status # order.status
                   \/ old.payment_status # order.payment_status
             THEN /\ req' = [req EXCEPT ![s].pc = "history",
                                        ![s].instance = order]
                  /\ resp' = NoResponse
             ELSE Finish(s, "ok")
    /\ UNCHANGED <<catalogVars, carts, orderItems, orderShipping, history,
                   paymentVars>>

\* partial_update: OrderStatusHistory.objects.create(...) and the response
UpdateHistory(s) ==
    /\ req[s].op = "partial_update"
    /\ req[s].pc = "history"
    /\ LET o == req[s].order
           order == req[s].instance
       IN history' = [history EXCEPT ![o] =
                         Append(@, [status |-> order.status,
                                    payment_status |-> order.payment_status,
                                    notes |-> "",
                                    changed_by |-> Admin])]
    /\ Finish(s, "ok")
    /\ UNCHANGED <<catalogVars, carts, orders, orderItems, orderShipping,
                   paymentVars>>

\* ------------------------------------------------------------ order delete
\* rows of table whose order is not o
WithoutOrder(table, o) ==
    LET Keep(row) == row.order # o
    IN SelectSeq(table, Keep)

\* DELETE /orders/{o}/ by an admin: ModelViewSet.destroy, which
\* get_permissions opens to IsVendorOwnerOrAdmin; instance.delete() removes
\* the order and, by on_delete=CASCADE, its OrderItem, OrderShipping and
\* OrderStatusHistory rows (and its payments: explored for orders that have
\* none)
OrderDestroy(s, o) ==
    /\ FreeSlot(s)
    /\ o \in ExistingOrders
    /\ \A p \in DOMAIN payments : payments[p].order # o
    /\ orders' = [orders EXCEPT ![o] = NoRow]
    /\ orderItems' = WithoutOrder(orderItems, o)
    /\ orderShipping' = WithoutOrder(orderShipping, o)
    /\ history' = [history EXCEPT ![o] = <<>>]
    /\ req' = req
    /\ resp' = [slot |-> s, outcome |-> "no_content"]
    /\ UNCHANGED <<catalogVars, carts, paymentVars>>

\* --------------------------------------------------------------- payments
\* the amounts the explored payment requests carry for order o
PaymentAmounts(o) == {orders[o].total_amount, orders[o].total_amount - 1}

InFlight(kind) == Cardinality({s \in Slots : req[s].op = kind})

\* PaymentCreateSerializer.validate_order
validate_order(order, user) ==
    order.customer = user /\ order.payment_status # "paid"

\* PaymentCreateSerializer.validate_payment_method
validate_payment_method(method) == is_active(method)

\* PaymentViewSet.create up to serializer.is_valid.  validate_amount takes
\* the order from self.initial_data, which holds the primary key the client
\* sent: "order_obj.total_amount" raises AttributeError and the request ends
\* with a 500.  The comparison the method goes on to make is kept as a
\* second outcome, so that the rest of the handler is covered as written.
PaymentRequest(s, u, o, method, amount) ==
    /\ FreeSlot(s)
    /\ o \in ExistingOrders
    /\ LET order == orders[o]
           request == [order |-> o, user |-> u, method |-> method,
                       value |-> amount]
       IN \/ /\ req' = req
             /\ resp' = [slot |-> s, outcome |-> "attribute_error"]
                             @@ request
          \/ IF /\ validate_order(order, u)
                /\ validate_payment_method(method)
                /\ amount = order.total_amount
             THEN /\ req' = [req EXCEPT ![s] =
                                [op |-> "payment", pc |-> "insert",
                                 user |-> u, order |-> o,
                                 method |-> method, amount |-> amount,
                                 instance |-> order, payment |-> 0]]
                  /\ resp' = NoResponse
             ELSE /\ req' = req
                  /\ resp' = [slot |-> s, outcome |-> "validation_error"]
                                  @@ request
    /\ UNCHANGED <<catalogVars, carts, orderVars, paymentVars>>

\* a payment request, while fewer than MaxPayments have been made
PaymentStart(s, u, o, method, amount) ==
    /\ Len(payments) + InFlight("payment") < MaxPayments
    /\ PaymentRequest(s, u, o, method, amount)

\* serializer.save(user=request.user): the INSERT of the pending payment
PaymentInsert(s) ==
    /\ req[s].op = "payment"
    /\ req[s].pc = "insert"
    /\ payments' = Append(payments,
                      [order |-> req[s].order, user |-> req[s].user,
                       method |-> req[s].method, amount |-> req[s].amount,
                       status |-> "pending"])
    /\ req' = [req EXCEPT ![s].pc = "processing",
                          ![s].payment = Len(payments) + 1]
    /\ resp' = NoResponse
    /\ UNCHANGED <<catalogVars, carts, orderVars, refunds>>

\* process_payment: payment.status = "processing"; payment.save()
PaymentProcessing(s) ==
    /\ req[s].op = "payment"
    /\ req[s].pc = "processing"
    /\ payments' = [payments EXCEPT ![req[s].payment].status = "processing"]
    /\ req' = [req EXCEPT ![s].pc = "completed"]
    /\ resp' = NoResponse
    /\ UNCHANGED <<catalogVars, carts, orderVars, refunds>>

\* process_payment: payment.status = "completed"; payment.save()
PaymentCompleted(s) ==
    /\ req[s].op = "payment"
    /\ req[s].pc = "completed"
    /\ payments' = [payments EXCEPT ![req[s].payment].status = "completed"]
    /\ req' = [req EXCEPT ![s].pc = "order"]
    /\ resp' = NoResponse
    /\ UNCHANGED <<catalogVars, carts, orderVars, refunds>>

\* process_payment: payment.order.payment_status = "paid";
\* payment.order.save() writes every column of the order instance that the
\* serializer read during validation; no history row is written
PaymentOrderPaid(s) ==
    /\ req[s].op = "payment"
    /\ req[s].pc = "order"
    /\ orders' = [orders EXCEPT ![req[s].order] =
                     [req[s].instance EXCEPT !.payment_status = "paid"]]
    /\ Finish(s, "created")
    /\ UNCHANGED <<catalogVars, carts, orderItems, orderShipping, history,
                   paymentVars>>

\* process_payment, except branch: a save() of the try block raised;
\* payment.status = "failed"; payment.save()
PaymentFailed(s) ==
    /\ req[s].op = "payment"
    /\ req[s].pc \in {"processing", "completed", "order"}
    /\ payments' = [payments EXCEPT ![req[s].payment].status = "failed"]
    /\ req' = [req EXCEPT ![s].pc = "order_failed"]
    /\ resp' = NoResponse
    /\ UNCHANGED <<catalogVars, carts, orderVars, refunds>>

\* except branch: payment.order.payment_status = "failed"; order.save()
PaymentOrderFailed(s) ==
    /\ req[s].op = "payment"
    /\ req[s].pc = "order_failed"
    /\ orders' = [orders EXCEPT ![req[s].order] =
                     [req[s].instance EXCEPT !.payment_status = "failed"]]
    /\ Finish(s, "created")
    /\ UNCHANGED <<catalogVars, carts, orderItems, orderShipping, history,
                   paymentVars>>

\* ---------------------------------------------------------------- refunds
\* a part of the payment amount, in cents
Part == 600

\* the amounts the explored refund requests carry for payment p: a part,
\* what is left after it, and one cent more than what is left
RefundAmounts(p) ==
    {Part, payments[p].amount - Part, payments[p].amount - Part + 1}

\* Payment.is_successful
is_successful(payment) == payment.status = "completed"

\* sum(refund.amount for refund in payment.refunds.filter(status="completed"))
total_refunded(p) ==
    SumSeq([i \in DOMAIN refunds |->
                IF refunds[i].payment = p /\ refunds[i].status = "completed"
                THEN refunds[i].amount ELSE 0])

\* RefundCreateSerializer.validate_payment
validate_payment(p) ==
    /\ is_successful(payments[p])
    /\ ~(total_refunded(p) >= payments[p].amount)

\* RefundCreateSerializer.validate_amount: "value > available_amount"
ExceedsAvailable(p, value) == value > payments[p].amount - total_refunded(p)

\* RefundViewSet.create up to serializer.is_valid.  validate_amount takes the
\* payment from self.initial_data, which holds the primary key the client
\* sent: "payment.refunds" raises AttributeError and the request ends with a
\* 500.  The comparison the method goes on to make is kept as a second
\* outcome, so that the rest of the handler is covered as written.
RefundStart(s, p, amount) ==
    /\ FreeSlot(s)
    /\ p \in DOMAIN payments
    /\ Len(refunds) + InFlight("refund") < MaxRefunds
    /\ \/ /\ req' = req
          /\ resp' = [slot |-> s, outcome |-> "attribute_error",
                      payment |-> p, amount |-> amount]
       \/ IF validate_payment(p) /\ ~ExceedsAvailable(p, amount)
          THEN /\ req' = [req EXCEPT ![s] =
                             [op |-> "refund", pc |-> "insert",
                              payment |-> p, amount |-> amount,
                              refund |-> 0]]
               /\ resp' = NoResponse
          ELSE /\ req' = req
               /\ resp' = [slot |-> s, outcome |-> "validation_error",
                           payment |-> p, amount |-> amount]
    /\ UNCHANGED <<catalogVars, carts, orderVars, paymentVars>>

\* serializer.save(): the INSERT of the pending refund.  Refund.order is
\* NOT NULL and the serializer has no order field, so the INSERT raises
\* IntegrityError (a 500); where the column takes NULL the row is stored
\* with order = NULL (0).
RefundInsert(s) ==
    /\ req[s].op = "refund"
    /\ req[s].pc = "insert"
    /\ \/ /\ Finish(s, "integrity_error")
          /\ UNCHANGED refunds
       \/ /\ refunds' = Append(refunds,
                           [payment |-> req[s].payment, order |-> 0,
                            amount |-> req[s].amount, status |-> "pending"])
          /\ req' = [req EXCEPT ![s].pc = "processing",
                                ![s].refund = Len(refunds) + 1]
          /\ resp' = NoResponse
    /\ UNCHANGED <<catalogVars, carts, orderVars, payments>>

\* process_refund: refund.status = "processing"; refund.save()
RefundProcessing(s) ==
    /\ req[s].op = "refund"
    /\ req[s].pc = "processing"
    /\ refunds' = [refunds EXCEPT ![req[s].refund].status = "processing"]
    /\ req' = [req EXCEPT ![s].pc = "completed"]
    /\ resp' = NoResponse
    /\ UNCHANGED <<catalogVars, carts, orderVars, payments>>

\* process_refund: refund.status = "completed"; refund.save()
RefundCompleted(s) ==
    /\ req[s].op = "refund"
    /\ req[s].pc = "completed"
    /\ refunds' = [refunds EXCEPT ![req[s].refund].status = "completed"]
    /\ req' = [req EXCEPT ![s].pc = "order"]
    /\ resp' = NoResponse
    /\ UNCHANGED <<catalogVars, carts, orderVars, payments>>

\* process_refund: "order = refund.order" has no order to give, so the
\* statements that follow raise before order.save() and the except branch
\* runs: refund.status = "failed"; refund.save().  payment.order is only
\* changed in memory, the order row is not written.
RefundFailed(s) ==
    /\ req[s].op = "refund"
    /\ req[s].pc = "order"
    /\ refunds[req[s].refund].order = 0
    /\ refunds' = [refunds EXCEPT ![req[s].refund].status = "failed"]
    /\ Finish(s, "created")
    /\ UNCHANGED <<catalogVars, carts, orderVars, payments>>

\* no request is in progress
Quiescent == \A t \in Slots : req[t].op = "idle"

CheckoutNext ==
    \/ \E u \in Users, v \in Variants, q \in 1..MaxQty : AddItem(u, v, q)
    \/ \E s \in Slots, u \in Users, m \in CheckoutMethods :
           CheckoutPost(s, u, CheckoutData(m))
    \/ \E s \in Slots : CheckoutCreateOrder(s)
    \/ \E s \in Slots : CheckoutLine(s)
    \/ \E s \in Slots : CheckoutCommit(s)
    \/ \E s \in Slots : DeadlockAbort(s)
    \/ \E m \in CheckoutMethods : ShippingMethodDelete(m)

SpecCheckout == Init /\ [][CheckoutNext]_vars

\* Checkout requests with every kind of body, for carts of one variant,
\* arriving one after the other while the catalogue is edited in the admin
\* site.
RequestVariants == {1}

\* ids sent for the shipping and payment method: the rows and a missing id
RequestMethodIds == {1, 2, 3}

\* addresses sent: complete, or lacking one of the required fields
RequestAddresses ==
    {required_fields} \cup {required_fields \ {f} : f \in required_fields}

\* bodies sent: a well-formed one, and those that differ from it in one field
RequestBodies ==
    {[CheckoutData(1) EXCEPT !.shipping_method_id = m] :
        m \in RequestMethodIds}
    \cup {[CheckoutData(1) EXCEPT !.payment_method_id = m] :
        m \in RequestMethodIds}
    \cup {[CheckoutData(1) EXCEPT !.shipping_address = a] :
        a \in RequestAddresses}
    \cup {[CheckoutData(1) EXCEPT !.billing_address = a] :
        a \in RequestAddresses}

CheckoutRequestNext ==
    \/ \E u \in Users, v \in RequestVariants, q \in 1..MaxQty :
           AddItem(u, v, q)
    \/ \E s \in Slots, u \in Users, data \in RequestBodies :
           Quiescent /\ CheckoutPost(s, u, data)
    \/ \E s \in Slots : CheckoutCreateOrder(s)
    \/ \E s \in Slots : CheckoutLine(s)
    \/ \E s \in Slots : CheckoutCommit(s)
    \/ \E m \in ShippingMethodIds : ShippingMethodDeactivate(m)
    \/ \E m \in ShippingMethodIds : ShippingMethodDelete(m)
    \/ \E v \in RequestVariants : VariantDeactivate(v)

SpecCheckoutRequest == Init /\ [][CheckoutRequestNext]_vars

\* the customer of the specifications that follow one customer's orders
OrderCustomers == {1}

\* The amounts of the orders of one customer, for carts of variant 1 and of
\* the variant without weight, and both shipping methods.
TotalsVariants == {1, 3}

TotalsNext ==
    \/ \E u \in OrderCustomers, v \in TotalsVariants, q \in 1..MaxQty :
           AddItem(u, v, q)
    \/ \E s \in Slots, u \in OrderCustomers, m \in ShippingMethodIds :
           Quiescent /\ CheckoutPost(s, u, CheckoutData(m))
    \/ \E s \in Slots : CheckoutCreateOrder(s)
    \/ \E s \in Slots : CheckoutLine(s)
    \/ \E s \in Slots : CheckoutCommit(s)

SpecTotals == Init /\ [][TotalsNext]_vars

\* the variant whose catalogue row is edited between and during checkouts
SnapshotVariants == {1}

\* The checkout of one customer, with the catalogue row of the variant
\* bought edited in the admin site before, during and after it.
SnapshotNext ==
    \/ \E u \in OrderCustomers, v \in SnapshotVariants, q \in 1..MaxQty :
           AddItem(u, v, q)
    \/ \E s \in Slots, u \in OrderCustomers, m \in CheckoutMethods :
           Quiescent /\ orders = <<>> /\ CheckoutPost(s, u, CheckoutData(m))
    \/ \E s \in Slots : CheckoutCreateOrder(s)
    \/ \E s \in Slots : CheckoutLine(s)
    \/ \E s \in Slots : CheckoutCommit(s)
    \/ \E v \in SnapshotVariants :
           \E field \in {"price", "name", "sku", "product_name"} :
               \E value \in EditValues(v, field) : VariantEdit(v, field, value)
    \/ \E v \in SnapshotVariants, q \in 0..MaxQty : StockEdit(v, q)

SpecSnapshot == Init /\ [][SnapshotNext]_vars

\* Checkouts of two customers, one after the other, whose order number
\* draws may hit a number that is already stored.
OrderNumberNext ==
    \/ \E u \in Users, v \in Variants, q \in 1..MaxQty : AddItem(u, v, q)
    \/ \E s \in Slots, u \in Users, m \in CheckoutMethods :
           Quiescent /\ CheckoutPost(s, u, CheckoutData(m))
    \/ \E s \in Slots : CheckoutCreateOrder(s)
    \/ \E s \in Slots, o \in 1..MaxOrders : CheckoutNumberCollision(s, o)
    \/ \E s \in Slots : CheckoutLine(s)
    \/ \E s \in Slots : CheckoutCommit(s)

SpecOrderNumber == Init /\ [][OrderNumberNext]_vars

\* The life cycle of one order: customer 1 buys the last unit of variant 2,
\* and the requests arrive one after the other.
OrderVariants == {2}

OrdersNext ==
    \/ \E u \in OrderCustomers, v \in OrderVariants, q \in 1..MaxQty :
           AddItem(u, v, q)
    \/ \E s \in Slots, u \in OrderCustomers, m \in CheckoutMethods :
           Quiescent /\ CheckoutPost(s, u, CheckoutData(m))
    \/ \E s \in Slots : CheckoutCreateOrder(s)
    \/ \E s \in Slots : CheckoutLine(s)
    \/ \E s \in Slots : CheckoutCommit(s)
    \/ \E s \in Slots, o \in 1..MaxOrders, data \in UpdateData :
           Quiescent /\ UpdateStart(s, "partial_update", o, data)
    \/ \E s \in Slots, o \in 1..MaxOrders, data \in UpdateData :
           Quiescent /\ UpdateStart(s, "update", o, data)
    \/ \E s \in Slots : UpdateSave(s)
    \/ \E s \in Slots : UpdateHistory(s)

SpecOrders == Init /\ [][OrdersNext]_vars

\* The same life cycle with the DELETE request of the order viewset.
OrderDeleteNext ==
    \/ \E u \in OrderCustomers, v \in OrderVariants, q \in 1..MaxQty :
           AddItem(u, v, q)
    \/ \E s \in Slots, u \in OrderCustomers, m \in CheckoutMethods :
           Quiescent /\ CheckoutPost(s, u, CheckoutData(m))
    \/ \E s \in Slots : CheckoutCreateOrder(s)
    \/ \E s \in Slots : CheckoutLine(s)
    \/ \E s \in Slots : CheckoutCommit(s)
    \/ \E s \in Slots, o \in 1..MaxOrders, data \in UpdateData :
           Quiescent /\ UpdateStart(s, "partial_update", o, data)
    \/ \E s \in Slots : UpdateSave(s)
    \/ \E s \in Slots : UpdateHistory(s)
    \/ \E s \in Slots, o \in 1..MaxOrders :
           Quiescent /\ OrderDestroy(s, o)

SpecOrderDelete == Init /\ [][OrderDeleteNext]_vars

\* Payments of one order: the order is created, and its customer sends
\* payment requests for it at once, one to each worker.
PaymentsNext ==
    \/ \E u \in OrderCustomers, v \in OrderVariants, q \in 1..MaxQty :
           AddItem(u, v, q)
    \/ \E s \in Slots, u \in OrderCustomers, m \in CheckoutMethods :
           Quiescent /\ CheckoutPost(s, u, CheckoutData(m))
    \/ \E s \in Slots : CheckoutCreateOrder(s)
    \/ \E s \in Slots : CheckoutLine(s)
    \/ \E s \in Slots : CheckoutCommit(s)
    \/ \E s \in Slots, u \in OrderCustomers, o \in ExistingOrders :
           \E method \in PaymentMethodIds :
               /\ Len(payments) + InFlight("payment") < NumSlots
               /\ PaymentRequest(s, u, o, method, orders[o].total_amount)
    \/ \E s \in Slots : PaymentInsert(s)
    \/ \E s \in Slots : PaymentProcessing(s)
    \/ \E s \in Slots : PaymentCompleted(s)
    \/ \E s \in Slots : PaymentOrderPaid(s)
    \/ \E s \in Slots : PaymentFailed(s)
    \/ \E s \in Slots : PaymentOrderFailed(s)

SpecPayments == Init /\ [][PaymentsNext]_vars

\* Payment and refunds of one order: the order is created and paid by its
\* customer, and refund requests for the payment arrive concurrently.
RefundsNext ==
    \/ \E u \in OrderCustomers, v \in OrderVariants, q \in 1..MaxQty :
           AddItem(u, v, q)
    \/ \E s \in Slots, u \in OrderCustomers, m \in CheckoutMethods :
           Quiescent /\ CheckoutPost(s, u, CheckoutData(m))
    \/ \E s \in Slots : CheckoutCreateOrder(s)
    \/ \E s \in Slots : CheckoutLine(s)
    \/ \E s \in Slots : CheckoutCommit(s)
    \/ \E s \in Slots, u \in Users, o \in DOMAIN orders :
           \E method \in PaymentMethodIds, amount \in PaymentAmounts(o) :
               Quiescent /\ PaymentStart(s, u, o, method, amount)
    \/ \E s \in Slots : PaymentInsert(s)
    \/ \E s \in Slots : PaymentProcessing(s)
    \/ \E s \in Slots : PaymentCompleted(s)
    \/ \E s \in Slots : PaymentOrderPaid(s)
    \/ \E s \in Slots : PaymentFailed(s)
    \/ \E s \in Slots : PaymentOrderFailed(s)
    \/ \E s \in Slots, p \in DOMAIN payments :
           \E amount \in RefundAmounts(p) : RefundStart(s, p, amount)
    \/ \E s \in Slots : RefundInsert(s)
    \/ \E s \in Slots : RefundProcessing(s)
    \/ \E s \in Slots : RefundCompleted(s)
    \/ \E s \in Slots : RefundFailed(s)

SpecRefunds == Init /\ [][RefundsNext]_vars

\* One order with its status updates, its payment and its refunds, the
\* requests arriving one after the other.
LifecycleNext ==
    \/ \E u \in OrderCustomers, v \in OrderVariants, q \in 1..MaxQty :
           AddItem(u, v, q)
    \/ \E s \in Slots, u \in OrderCustomers, m \in CheckoutMethods :
           Quiescent /\ CheckoutPost(s, u, CheckoutData(m))
    \/ \E s \in Slots : CheckoutCreateOrder(s)
    \/ \E s \in Slots : CheckoutLine(s)
    \/ \E s \in Slots : CheckoutCommit(s)
    \/ \E s \in Slots, o \in 1..MaxOrders, data \in UpdateData :
           Quiescent /\ UpdateStart(s, "partial_update", o, data)
    \/ \E s \in Slots, o \in 1..MaxOrders, data \in UpdateData :
           Quiescent /\ UpdateStart(s, "update", o, data)
    \/ \E s \in Slots : UpdateSave(s)
    \/ \E s \in Slots : UpdateHistory(s)
    \/ \E s \in Slots, u \in OrderCustomers, o \in 1..MaxOrders :
           \E method \in PaymentMethodIds :
               Quiescent
                   /\ PaymentStart(s, u, o, method, orders[o].total_amount)
    \/ \E s \in Slots : PaymentInsert(s)
    \/ \E s \in Slots : PaymentProcessing(s)
    \/ \E s \in Slots : PaymentCompleted(s)
    \/ \E s \in Slots : PaymentOrderPaid(s)
    \/ \E s \in Slots : PaymentFailed(s)
    \/ \E s \in Slots : PaymentOrderFailed(s)
    \/ \E s \in Slots, p \in DOMAIN payments :
           Quiescent /\ RefundStart(s, p, Part)
    \/ \E s \in Slots : RefundInsert(s)
    \/ \E s \in Slots : RefundProcessing(s)
    \/ \E s \in Slots : RefundCompleted(s)
    \/ \E s \in Slots : RefundFailed(s)

SpecLifecycle == Init /\ [][LifecycleNext]_vars

\* The life cycle of one order together with the cart operations, the
\* sweep task and a price edit that gives the cart validation work to do.
StockNext ==
    \/ LifecycleNext
    \/ \E u \in OrderCustomers, i \in 1..MaxQty :
           Quiescent /\ RemoveItem(u, i)
    \/ \E u \in OrderCustomers : Quiescent /\ ClearCart(u)
    \/ \E u \in OrderCustomers, i \in 1..MaxQty, q \in 0..MaxQty :
           Quiescent /\ UpdateItem(u, i, q)
    \/ \E u \in OrderCustomers : Quiescent /\ ValidateCart(u)
    \/ \E v \in OrderVariants :
           \E value \in EditValues(v, "price") :
               Quiescent /\ carts # [u \in Users |-> <<>>]
                   /\ VariantEdit(v, "price", value)
    \/ \E old \in SUBSET ExistingOrders :
           Quiescent /\ process_pending_orders(old)

SpecStock == Init /\ [][StockNext]_vars

\* ================================================================ claims
db == <<stock, carts, orders, orderItems, orderShipping, history>>

CheckoutStep(s) == req[s].op = "checkout" /\ req'[s] # req[s]

CheckoutEnds(s) == req[s].op = "checkout" /\ req'[s].op = "idle"

\* the cart of the request of slot s, as the request sees it
SingleUnit(s, v) ==
    LET one == <<[variant |-> v, quantity |-> 1, unit_price |-> Price(v)]>>
    IN /\ req[s].op = "checkout"
       /\ shipMethods[req[s].method] # "deleted"
       /\ \/ req[s].pc = "create" /\ carts[req[s].user] = one
          \/ req[s].pc = "lines" /\ req[s].items = one

\* C1: two concurrent checkouts of different carts, each for one unit of a
\* variant that has one unit in stock: the first of them to end commits its
\* order, and the one that ends after that commit aborts with the
\* insufficient-stock failure and changes nothing.
C1_ExactlyOneCommits ==
    [][\A s \in Slots, v \in Variants :
         /\ (/\ SingleUnit(s, v)
             /\ stock[v] = 1
             /\ \E t \in Slots \ {s} :
                    SingleUnit(t, v) /\ req[t].user # req[s].user
             /\ CheckoutEnds(s))
            => resp'.outcome = "created"
         /\ (/\ SingleUnit(s, v)
             /\ stock[v] = 0
             /\ CheckoutEnds(s))
            => (resp'.outcome = "insufficient_stock" /\ UNCHANGED db)]_vars

\* C2: the stock of every variant is never negative, neither in the
\* database nor in the decrements an open checkout transaction holds, and a
\* checkout line that asks for more than the stock read under the row lock
\* ends the request without a stock change.
C2_StockNeverNegative ==
    /\ \A v \in Variants : stock[v] >= 0
    /\ \A s \in Slots, v \in Variants :
           (req[s].op = "checkout" /\ req[s].pc = "lines")
               => stock[v] - SumSeq([i \in DOMAIN req[s].lines |->
                                        IF req[s].lines[i].variant = v
                                        THEN req[s].lines[i].quantity
                                        ELSE 0]) >= 0

\* a checkout was refused under the lock because the stock was gone
C2_Witness ==
    \E v \in Variants :
        resp.outcome = "insufficient_stock" /\ stock[v] = 0

\* C3: only the commit of a checkout writes: every step of a checkout
\* request that is not its successful commit, in particular the step on
\* which it fails, leaves stock, carts, orders, order items, shipping rows
\* and history rows as they were.
C3_FailureRollsBack ==
    [][\A s \in Slots :
         (CheckoutStep(s) /\ ~(CheckoutEnds(s) /\ resp'.outcome = "created"))
             => UNCHANGED db]_vars

\* a checkout failed on the shipping method lookup, after all its lines had
\* been processed, and nothing of it is in the database
C3_Witness ==
    \E u \in Users :
        /\ resp.outcome = "does_not_exist"
        /\ carts[u] # <<>>
        /\ orders = <<>>
        /\ \A v \in Variants : stock[v] = InitStock(v)

OrderedQuantity(v) ==
    SumSeq([i \in DOMAIN orderItems |->
                IF orderItems[i].variant = v
                THEN orderItems[i].quantity ELSE 0])

\* C4: the stock taken from a variant since the start equals the sum of the
\* quantities of the committed order items of that variant, and the step
\* that commits a checkout leaves the customer's cart with zero items.
C4_StockMatchesOrders ==
    /\ [](\A v \in Variants : InitStock(v) - stock[v] = OrderedQuantity(v))
    /\ [][\A s \in Slots :
            (CheckoutEnds(s) /\ resp'.outcome = "created")
                => carts'[req[s].user] = <<>>]_vars

\* a committed two-unit order whose customer's cart is empty
C4_Witness ==
    \E i \in DOMAIN orderItems :
        /\ resp.outcome = "created"
        /\ orderItems[i].quantity = 2
        /\ carts[orders[orderItems[i].order].customer] = <<>>

ItemsTotal(o) ==
    SumSeq([i \in DOMAIN orderItems |->
                IF orderItems[i].order = o
                THEN orderItems[i].total_price ELSE 0])

TransitionTable(current) ==
    CASE current = "pending" -> {"confirmed", "cancelled"}
      [] current = "confirmed" -> {"processing", "cancelled"}
      [] current = "processing" -> {"shipped", "cancelled"}
      [] current = "shipped" -> {"delivered"}
      [] current \in {"delivered", "cancelled", "refunded"} -> {}

UpdateHandlers == {"partial_update", "update"}

\* the step on which slot s accepts a PATCH or PUT request
UpdateAccepted(s) == req[s].op = "idle" /\ req'[s].op \in UpdateHandlers

Rejected == resp.outcome = "invalid_status_transition"

\* C6: a PATCH or PUT request that asks for status t while the order has
\* status s is accepted only if (s, t) is in the transition table and is
\* rejected only if it is not; an accepted request stores t, and the step
\* that rejects a request leaves the order rows and the history rows as they
\* were.
C6_TransitionTable ==
    /\ [](Rejected =>
            /\ resp.from = orders[resp.order].status
            /\ resp.to \notin TransitionTable(resp.from))
    /\ [][/\ \A s \in Slots :
                (UpdateAccepted(s) /\ req'[s].data.status # Absent)
                    => req'[s].data.status \in
                           TransitionTable(orders[req'[s].order].status)
          /\ \A s \in Slots :
                (/\ req[s].op \in UpdateHandlers
                 /\ req[s].pc = "save"
                 /\ req[s].data.status # Absent
                 /\ req'[s] # req[s])
                    => orders'[req[s].order].status = req[s].data.status
          /\ Rejected' => UNCHANGED <<orders, history>>]_vars

\* a shipped order, brought there by accepted updates, for which the
\* cancellation was refused
C6_Witness ==
    /\ Rejected
    /\ resp.from = "shipped"
    /\ resp.to = "cancelled"
    /\ orders[resp.order].status = "shipped"

\* C7: whenever no request is in progress, the newest history row of every
\* order carries the order's current status and payment_status.
C7_HistoryTracksOrder ==
    Quiescent =>
        \A o \in DOMAIN orders :
            LET newest == history[o][Len(history[o])]
            IN /\ newest.status = orders[o].status
               /\ newest.payment_status = orders[o].payment_status

\* the statuses of the history rows of order o, oldest first
HistoryStatuses(o) == [i \in DOMAIN history[o] |-> history[o][i].status]

\* C8: a request pending -> shipped is never accepted and its rejection
\* appends no history row; and, for an order whose payment_status was never
\* edited, the history rows are the initial row followed by one row per
\* accepted status change in the order of the changes, so that a delivered
\* order has exactly the five rows pending, confirmed, processing, shipped,
\* delivered.
C8_FiveHistoryRows ==
    /\ [][/\ \A s \in Slots :
                (UpdateAccepted(s)
                    /\ orders[req'[s].order].status = "pending")
                    => req'[s].data.status # "shipped"
          /\ (Rejected' /\ resp'.from = "pending" /\ resp'.to = "shipped")
                => history' = history]_vars
    /\ [](Quiescent =>
            \A o \in DOMAIN orders :
                orders[o].payment_status = "pending" =>
                    LET h == HistoryStatuses(o)
                    IN /\ h[1] = "pending"
                       /\ h[Len(h)] = orders[o].status
                       /\ \A i \in 1..(Len(h) - 1) :
                              h[i + 1] \in TransitionTable(h[i])
                       /\ orders[o].status = "delivered" =>
                              h = <<"pending", "confirmed", "processing",
                                    "shipped", "delivered">>)

ShouldReject(p, amount) ==
    \/ payments[p].status # "completed"
    \/ amount + total_refunded(p) > payments[p].amount

\* the step on which slot s accepts a refund request
RefundAccepted(s) == req[s].op = "idle" /\ req'[s].op = "refund"

\* the step answers a refund request without accepting it
RefundRefused == "amount" \in DOMAIN resp'

\* C10: a refund request is refused, with no Refund row created and the
\* orders unchanged, if the payment is not completed or the amount plus the
\* completed refunds of the payment exceeds the payment's amount; every
\* other refund request is accepted and its Refund row is created.
C10_RefundAcceptance ==
    [][/\ \A s \in Slots :
             RefundAccepted(s)
                 => ~ShouldReject(req'[s].payment, req'[s].amount)
       /\ RefundRefused =>
             /\ ShouldReject(resp'.payment, resp'.amount)
             /\ UNCHANGED <<orders, refunds>>
       /\ \A s \in Slots :
             (req[s].op = "refund" /\ req[s].pc = "insert"
                 /\ req'[s] # req[s])
                 => Len(refunds') = Len(refunds) + 1]_vars

\* the step on which slot s ends the processing of a refund
RefundEnds(s) ==
    req[s].op = "refund" /\ req[s].pc = "order" /\ req'[s].op = "idle"

PaymentShouldReject(o, method, amount) ==
    \/ orders[o].payment_status = "paid"
    \/ amount # orders[o].total_amount
    \/ ~is_active(method)

\* the step on which slot s accepts a payment request
PaymentAccepted(s) == req[s].op = "idle" /\ req'[s].op = "payment"

\* the step answers a payment request without accepting it
PaymentRefused == "value" \in DOMAIN resp'

\* C12: a payment request is refused, with no Payment row created and the
\* orders unchanged, if the order is paid, the amount differs from the
\* order's total_amount or the payment method is inactive; every other
\* payment request of the order's customer is accepted and its Payment row
\* is created.
C12_PaymentAcceptance ==
    [][/\ \A s \in Slots :
             PaymentAccepted(s)
                 => ~PaymentShouldReject(req'[s].order, req'[s].method,
                                         req'[s].amount)
       /\ PaymentRefused =>
             /\ \/ PaymentShouldReject(resp'.order, resp'.method,
                                       resp'.value)
                \/ resp'.user # orders[resp'.order].customer
             /\ UNCHANGED <<orders, payments>>
       /\ \A s \in Slots :
             (req[s].op = "payment" /\ req[s].pc = "insert"
                 /\ req'[s] # req[s])
                 => Len(payments') = Len(payments) + 1]_vars

PaymentPaths ==
    {<<"pending", "processing">>, <<"processing", "completed">>,
     <<"processing", "failed">>}

\* the step on which slot s ends the processing of a payment
PaymentEnds(s) ==
    req[s].op = "payment" /\ req[s].payment # 0 /\ req'[s].op = "idle"

AddressFields ==
    {"first_name", "last_name", "address_line_1", "city", "state_province",
     "postal_code", "country"}

\* the preconditions of a checkout request of user u with body data
Preconditions(u, data) ==
    /\ carts[u] # <<>>
    /\ \A i \in DOMAIN carts[u] :
           LET line == carts[u][i]
           IN /\ variantActive[line.variant]
              /\ stock[line.variant] > 0
              /\ line.quantity <= stock[line.variant]
    /\ data.shipping_method_id \in ShippingMethodIds
    /\ shipMethods[data.shipping_method_id] = "active"
    /\ data.payment_method_id = 1
    /\ AddressFields \subseteq data.shipping_address
    /\ AddressFields \subseteq data.billing_address

CheckoutRejections == {"cart_empty", "validation_error"}

\* C16: a checkout request goes on to process_checkout only if its cart is
\* not empty, every cart line's variant is active and in stock with the
\* line's quantity within the stock, the shipping method and the payment
\* method exist and are active, and both addresses carry all required
\* fields; the step that rejects a request changes no stock, cart, order,
\* order item, shipping or history row.
C16_CheckoutPreconditions ==
    [][/\ \A s \in Slots :
             (req[s].op = "idle" /\ req'[s].op = "checkout")
                 => Preconditions(req'[s].user, req'[s].data)
       /\ resp'.outcome \in CheckoutRejections => UNCHANGED db]_vars

\* a request was rejected for its payment method alone while the customer's
\* cart holds a line that could be bought, and nothing was taken from stock
C16_Witness ==
    /\ resp.outcome = "validation_error"
    /\ resp.errors = {"payment_method_id"}
    /\ \E u \in Users : carts[u] # <<>> /\ CartItemsValid(carts[u])
    /\ orders = <<>>
    /\ \A v \in Variants : stock[v] = InitStock(v)

ShippingRows(o) == {i \in DOMAIN orderShipping : orderShipping[i].order = o}

ItemRows(o) == {i \in DOMAIN orderItems : orderItems[i].order = o}

LineWeight(cart, i) ==
    IF cart[i].variant = 3 THEN 0
    ELSE Weight(cart[i].variant) * cart[i].quantity

\* the cart of the example: two units of the variant of 10.00 and 1 kg
ExampleCart == <<[variant |-> 1, quantity |-> 2, unit_price |-> 1000]>>

\* C18: the order committed by a checkout with shipping method m has, to
\* the cent, shipping_amount = base_cost + cost_per_kg * the cart's total
\* weight (a missing weight counted as 0), tax_amount = 10% of the subtotal
\* and total_amount = subtotal + shipping + tax as computed; for the cart
\* of the example and the method {5.99, 1.50 per kg} the amounts are 8.99,
\* 20.00, 2.00 and 30.99.
C18_Amounts ==
    [][\A s \in Slots :
         (CheckoutEnds(s) /\ resp'.outcome = "created") =>
             LET order == orders'[Len(orders')]
                 cart == carts[req[s].user]
                 m == req[s].method
                 weight == SumSeq([i \in DOMAIN cart |-> LineWeight(cart, i)])
                 shipping == BaseCost(m) * 100 + CostPerKg(m) * weight
                 tax == order.subtotal * 10
             IN /\ order.shipping_amount = Quantize(shipping)
                /\ order.tax_amount = Quantize(tax)
                /\ order.total_amount =
                       Quantize(order.subtotal * 100 + shipping + tax)
                /\ (cart = ExampleCart /\ req[s].items = ExampleCart
                        /\ m = 1)
                       => /\ order.shipping_amount = 899
                          /\ order.subtotal = 2000
                          /\ order.tax_amount = 200
                          /\ order.total_amount = 3099]_vars

\* the order of the example, and an order for the variant without weight
\* that is charged the base cost alone
C18_Witness ==
    /\ resp.outcome = "created"
    /\ \E o \in DOMAIN orders :
           /\ orders[o].subtotal = 2000
           /\ orders[o].shipping_amount = 899
           /\ orders[o].total_amount = 3099
    /\ \E i \in DOMAIN orderItems :
           /\ orderItems[i].variant = 3
           /\ orders[orderItems[i].order].shipping_amount
                  \in {BaseCost(1), BaseCost(2)}

\* the changes of an order's payment_status that are specified
PaymentStatusPaths ==
    {<<"pending", "paid">>, <<"pending", "failed">>,
     <<"paid", "refunded">>, <<"paid", "partially_refunded">>}

\* the step is taken by a payment or a refund request
ProcessingStep ==
    \E s \in Slots : req[s].op \in {"payment", "refund"} /\ req'[s] # req[s]

\* C19: every change of an order's stored payment_status is pending -> paid,
\* pending -> failed, paid -> refunded or paid -> partially_refunded, and is
\* made by a step of payment or refund processing; no step of a PATCH or PUT
\* order update changes it.
C19_PaymentStatusPaths ==
    [][\A o \in DOMAIN orders :
         orders'[o].payment_status # orders[o].payment_status
             => /\ <<orders[o].payment_status, orders'[o].payment_status>>
                       \in PaymentStatusPaths
                /\ ProcessingStep]_vars

\* C20: no step removes an order: an order that exists keeps existing, with
\* at least the history rows and exactly the order items it had.
C20_OrdersNeverDeleted ==
    [][\A o \in ExistingOrders :
         /\ o \in ExistingOrders'
         /\ Len(history'[o]) >= Len(history[o])
         /\ Cardinality(ItemRows(o)') = Cardinality(ItemRows(o))]_vars

\* C21: no two orders have the same order_number, and no checkout is ended
\* by the draw of an order_number that is already stored.
C21_OrderNumbers ==
    /\ [](\A o1, o2 \in ExistingOrders :
              o1 # o2 => orders[o1].order_number # orders[o2].order_number)
    /\ [][\A s \in Slots :
            (CheckoutEnds(s) /\ req[s].pc = "create")
                => "order_number" \notin DOMAIN resp']_vars

Snapshot(order) ==
    <<order.order_number, order.customer, order.subtotal, order.tax_amount,
      order.shipping_amount, order.discount_amount, order.total_amount,
      order.shipping_address, order.billing_address>>

ItemsOf(o) ==
    LET Mine(row) == row.order = o
    IN SelectSeq(orderItems, Mine)

ShippingOf(o) ==
    LET Mine(row) == row.order = o
    IN SelectSeq(orderShipping, Mine)

\* C23: no step of a status update, a payment or a refund changes an
\* existing order's order_number, customer, subtotal, tax_amount,
\* shipping_amount, discount_amount, total_amount, shipping_address or
\* billing_address, its OrderItem rows or its OrderShipping row.
C23_UpdateFrame ==
    [][\A o \in ExistingOrders :
         /\ Snapshot(orders'[o]) = Snapshot(orders[o])
         /\ ItemsOf(o)' = ItemsOf(o)
         /\ ShippingOf(o)' = ShippingOf(o)]_vars

\* a cancelled, paid order with an internal note and a refund row
C23_Witness ==
    \E o \in ExistingOrders :
        /\ orders[o].status = "cancelled"
        /\ orders[o].payment_status = "paid"
        /\ orders[o].internal_notes = "checked"
        /\ ItemsOf(o) # <<>>
        /\ refunds # <<>>

\* the amounts of an Order row
Amounts(order) ==
    [f \in {"subtotal", "tax_amount", "shipping_amount", "discount_amount",
            "total_amount"} |-> order[f]]

\* the rows of orderItems written by the step
NewItems == {i \in DOMAIN orderItems' : i \notin DOMAIN orderItems}

\* the step writes its new OrderItems from the variant rows and leaves the
\* existing OrderItems and Order amounts as they are
ItemSnapshotStep ==
    /\ \A i \in NewItems :
           LET item == orderItems'[i]
               variant == catalog[item.variant]
           IN /\ item.unit_price = variant.price
              /\ item.product_name = variant.product_name
              /\ item.variant_name = variant.name
              /\ item.sku = variant.sku
    /\ \A i \in DOMAIN orderItems : orderItems'[i] = orderItems[i]
    /\ \A o \in ExistingOrders : Amounts(orders'[o]) = Amounts(orders[o])

CheckoutCommits ==
    \E s \in Slots : /\ CheckoutEnds(s)
                     /\ req[s].pc = "lines"
                     /\ resp'.outcome = "created"

OrderedLines(s) ==
    [i \in DOMAIN req[s].lines |->
        [variant |-> req[s].lines[i].variant,
         quantity |-> req[s].lines[i].quantity]]

CompletedPayments(o) ==
    {p \in DOMAIN payments : /\ payments[p].order = o
                             /\ payments[p].status = "completed"}

CompletedRefunds(o) ==
    {r \in DOMAIN refunds : /\ payments[refunds[r].payment].order = o
                            /\ refunds[r].status = "completed"}

\* C29: an order whose payment_status is "paid" has a completed Payment of
\* its total_amount, and an order whose payment_status is "refunded" or
\* "partially_refunded" has a completed Refund, after any sequence of
\* status updates, payments and refunds.
C29_PaymentStatusAgrees ==
    \A o \in ExistingOrders :
        /\ orders[o].payment_status = "paid" =>
               \E p \in CompletedPayments(o) :
                   payments[p].amount = orders[o].total_amount
        /\ orders[o].payment_status \in {"refunded", "partially_refunded"} =>
               CompletedRefunds(o) # {}

====
